---- MODULE Spec2Model ----
(***************************************************************************)
(* State machine of the VideoPlayer component (src/unnamed/part_000): the  *)
(* manifest fetcher, the dash.js engine adapter, the quality reconciler    *)
(* and the blob / engine / timer lifecycle.  One action per handler,       *)
(* effect or callback; an action is the whole handler together with the    *)
(* React effects its state updates trigger.                                *)
(***************************************************************************)
EXTENDS Integers, Sequences, FiniteSets, TLC

VARIABLES
  mounted,              \* the component is mounted (videoPlayerRef.current is set)
  url,                  \* prop url
  inflight,             \* manifest requests issued and not yet completed
  nextReq,              \* id of the next request to issue
  completed,            \* request ids in completion order (history)
  liveBlobs,            \* object URLs created and not revoked
  options,              \* options.src: 0 is '', n > 0 the blob of request n
  formatListTwo,        \* state formatListTwo
  formatListRef,        \* formatListRef.current
  formatListReq,        \* request whose response set formatListTwo (history)
  availableQualities,   \* state availableQualities
  currentQualityIndex,  \* state currentQualityIndex
  currentQuality,       \* state currentQuality
  currentAutoQuality,   \* state currentAutoQuality
  isLoggedIn,           \* state isLoggedIn
  switchMessage,        \* state switchMessage
  msgTimers,            \* pending setTimeout(() => setSwitchMessage(''))
  playerRef,            \* playerRef.current: 0 is null, else the engine instance
  activeEngines,        \* engine instances created and not reset
  nextEngine,           \* id of the next engine instance
  autoSwitchVideo,      \* engine setting streaming.abr.autoSwitchBitrate.video
  engineSrc,            \* source attached to the engine
  streamPending,        \* a STREAM_INITIALIZED event is due for the attached source
  engineReps,           \* getRepresentationsByType('video'): representation ids
  engineCurRep,         \* getCurrentRepresentationForType('video'): index or NoRep
  capturedIsLoggedIn,   \* isLoggedIn as closed over by the engine event handlers
  capturedQualityIndex, \* currentQualityIndex as closed over by the handlers
  hideControlsTimer,    \* hideControlsTimer.current is set
  hideTimerPending,     \* the hide-controls timeout has not fired or been cleared
  previousBlobUrl,      \* previousBlobUrl.current: 0 is null
  lastOp,               \* the handler that ran last (history)
  lastOut,              \* what it did with an error: none, logged, onError, uncaught
  lastHanded,           \* how many times it handed a source URI to the engine
  subtitles,            \* prop subtitles: raw lines {start, end, text}
  processedSubtitles,   \* memo processedSubtitles: lines with startTime, endTime
  currentTime,          \* state currentTime, in milliseconds
  currentSubtitle,      \* state currentSubtitle
  isFullscreen,         \* state isFullscreen
  fullscreenElement,    \* document.fullscreenElement is the player's container
  isPiPSupported,       \* state isPiPSupported
  pipElement,           \* document.pictureInPictureElement is the video
  lastCall,             \* the platform call the last handler made (history)
  volume,               \* state volume, in tenths
  isMuted,              \* state isMuted
  elVolume,             \* videoPlayerRef.current.volume, in tenths
  elMuted               \* videoPlayerRef.current.muted

vars == <<mounted, url, inflight, nextReq, completed, liveBlobs, options,
          formatListTwo, formatListRef, formatListReq, availableQualities,
          currentQualityIndex, currentQuality, currentAutoQuality, isLoggedIn,
          switchMessage, msgTimers, playerRef, activeEngines,
          nextEngine, autoSwitchVideo, engineSrc, streamPending, engineReps,
          engineCurRep, capturedIsLoggedIn, capturedQualityIndex,
          hideControlsTimer, hideTimerPending, previousBlobUrl,
          lastOp, lastOut, lastHanded, subtitles, processedSubtitles,
          currentTime, currentSubtitle, isFullscreen, fullscreenElement,
          isPiPSupported, pipElement, lastCall, volume, isMuted, elVolume,
          elMuted>>

----------------------------------------------------------------------------
(* Bounds of the model *)

MaxFetches == 2
MaxTimers == 1

----------------------------------------------------------------------------
(* Values *)

EmptySrc == 0
NoPlayer == 0
NoBlob == 0
NoRep == -1
AutoIndex == -1
LoginThreshold == 112
ExternalSrc == 100
AutoLabel == "auto"
NoMessage == <<>>
NaN == -2
InitialVolume == 7
RestoredVolume == 5

Urls == {"", "BV1"}

Item(id, desc, disp, codecs) ==
  [id |-> id, new_description |-> desc, display_desc |-> disp, codecs |-> codecs]

FormatLists ==
  { << Item(120, "4K", "UHD", ""), Item(64, "720P", "HD", ""),
       Item(16, "360P", "SD", "avc1"), Item(1, "240P", "", "") >>,
    << Item(64, "720P", "", "avc1"), Item(16, "360P", "SD", "avc1") >> }

RepLists == { <<>>, <<"64", "16">> }

QualityIndexInputs == {-1, 0, 1, 64}

\* how a manifest request ends: the request rejects, the body is not JSON, the
\* body has no data object, the data object has no unifiedMpd, all is there
FailKinds == {"reject", "nonjson", "nodata"}
AppliedKinds == {"ok", "nompd"}

Responses ==
  [kind : FailKinds, formatList : {<<>>}] \cup [kind : AppliedKinds, formatList : FormatLists]

\* the handler a completion of kind k runs: the .then callback or the .catch
FetchOp(k) ==
  CASE k = "ok" -> "fetch_ok"
    [] k = "nompd" -> "fetch_nompd"
    [] OTHER -> "fetch_failed"

\* Number(rep.id)
NumberOf(s) ==
  CASE s = "16" -> 16
    [] s = "64" -> 64
    [] s = "120" -> 120
    [] OTHER -> NaN

----------------------------------------------------------------------------
(* Quality reconciler *)

\* videoReps.findIndex(rep => Number(rep.id) === id), 0-based, -1 when absent
FindRepIndex(reps, id) ==
  LET hits == {i \in 1..Len(reps) : NumberOf(reps[i]) = id}
  IN IF hits = {} THEN -1
     ELSE (CHOOSE i \in hits : \A j \in hits : i <= j) - 1

\* formatListRef.current.find(q => q.id === id): its position, 0 when absent
FindFormat(fl, id) ==
  LET hits == {i \in 1..Len(fl) : fl[i].id = id}
  IN IF hits = {} THEN 0 ELSE CHOOSE i \in hits : \A j \in hits : i <= j

\* availableQualities.find(q => q.index === index): its position, 0 when absent
FindQuality(qs, index) ==
  LET hits == {i \in 1..Len(qs) : qs[i].index = index}
  IN IF hits = {} THEN 0 ELSE CHOOSE i \in hits : \A j \in hits : i <= j

\* what the forEach body of the STREAM_INITIALIZED handler pushes for one item
QualityOfItem(item, reps, loggedIn) ==
  IF item.id # 0 /\ item.codecs # ""
  THEN LET repIndex == FindRepIndex(reps, item.id)
       IN IF repIndex # -1
          THEN << [index |-> repIndex, label |-> item.new_description,
                   id |-> item.id, needLogin |-> FALSE] >>
          ELSE <<>>
  ELSE IF ~loggedIn /\ item.id < LoginThreshold
       THEN << [index |-> item.id, label |-> item.new_description,
                id |-> item.id, needLogin |-> TRUE] >>
       ELSE <<>>

RECURSIVE BuildQualities(_, _, _)
BuildQualities(fl, reps, loggedIn) ==
  IF fl = <<>> THEN <<>>
  ELSE QualityOfItem(Head(fl), reps, loggedIn) \o BuildQualities(Tail(fl), reps, loggedIn)

\* updateQualityList, run with the closure's currentQualityIndex: the new
\* (currentQuality, currentAutoQuality) given those a setter already put in place
updateQualityList(closureIndex, pRef, reps, cur, fl, cq, caq) ==
  LET same == [currentQuality |-> cq, currentAutoQuality |-> caq]
      reset == [currentQuality |-> AutoLabel, currentAutoQuality |-> ""]
  IN IF pRef = NoPlayer THEN same
     ELSE IF closureIndex # AutoIndex THEN same
     ELSE IF Len(reps) = 0 THEN same
     ELSE IF cur = NoRep THEN reset
     ELSE LET m == FindFormat(fl, NumberOf(reps[cur + 1]))
          IN IF m # 0
             THEN [currentQuality |-> AutoLabel,
                   currentAutoQuality |->
                     IF fl[m].display_desc # "" THEN fl[m].display_desc ELSE caq]
             ELSE reset

----------------------------------------------------------------------------
(* Engine adapter and resource lifecycle, as functions of the refs *)

Refs ==
  [playerRef |-> playerRef, activeEngines |-> activeEngines, nextEngine |-> nextEngine,
   autoSwitchVideo |-> autoSwitchVideo, engineSrc |-> engineSrc,
   streamPending |-> streamPending, engineReps |-> engineReps,
   engineCurRep |-> engineCurRep, capturedIsLoggedIn |-> capturedIsLoggedIn,
   capturedQualityIndex |-> capturedQualityIndex,
   hideControlsTimer |-> hideControlsTimer, hideTimerPending |-> hideTimerPending,
   previousBlobUrl |-> previousBlobUrl, liveBlobs |-> liveBlobs, out |-> "none",
   handed |-> 0]

SetRefs(r) ==
  /\ playerRef' = r.playerRef
  /\ activeEngines' = r.activeEngines
  /\ nextEngine' = r.nextEngine
  /\ autoSwitchVideo' = r.autoSwitchVideo
  /\ engineSrc' = r.engineSrc
  /\ streamPending' = r.streamPending
  /\ engineReps' = r.engineReps
  /\ engineCurRep' = r.engineCurRep
  /\ capturedIsLoggedIn' = r.capturedIsLoggedIn
  /\ capturedQualityIndex' = r.capturedQualityIndex
  /\ hideControlsTimer' = r.hideControlsTimer
  /\ hideTimerPending' = r.hideTimerPending
  /\ previousBlobUrl' = r.previousBlobUrl
  /\ liveBlobs' = r.liveBlobs
  /\ lastOut' = r.out
  /\ lastHanded' = r.handed

revokePreviousBlobUrl(r) ==
  IF r.previousBlobUrl # NoBlob
  THEN [r EXCEPT !.liveBlobs = @ \ {r.previousBlobUrl}, !.previousBlobUrl = NoBlob]
  ELSE r

\* a reset engine instance is gone: its settings, source and listeners with it
EngineGone(r) ==
  [r EXCEPT !.playerRef = NoPlayer, !.activeEngines = @ \ {r.playerRef},
            !.autoSwitchVideo = TRUE, !.engineSrc = EmptySrc,
            !.streamPending = FALSE, !.engineReps = <<>>, !.engineCurRep = NoRep,
            !.capturedIsLoggedIn = FALSE, !.capturedQualityIndex = AutoIndex]

destroyPlayer(r, resetThrows) ==
  LET r1 == IF r.playerRef # NoPlayer
            THEN IF resetThrows THEN [r EXCEPT !.out = "logged"] ELSE EngineGone(r)
            ELSE r
      r2 == IF r1.hideControlsTimer
            THEN [r1 EXCEPT !.hideControlsTimer = FALSE, !.hideTimerPending = FALSE]
            ELSE r1
  IN revokePreviousBlobUrl(r2)

\* initPlayer in a render whose state is (optionsSrc, loggedIn, qualityIndex)
initPlayer(r, elPresent, optionsSrc, loggedIn, qualityIndex, resetThrows) ==
  IF ~elPresent THEN [r EXCEPT !.out = "onError"]
  ELSE LET r1 == IF r.playerRef # NoPlayer THEN destroyPlayer(r, resetThrows) ELSE r
       IN [r1 EXCEPT !.playerRef = r1.nextEngine,
                     !.activeEngines = @ \cup {r1.nextEngine},
                     !.nextEngine = @ + 1,
                     !.autoSwitchVideo = TRUE,
                     !.capturedIsLoggedIn = loggedIn,
                     !.capturedQualityIndex = qualityIndex,
                     !.engineSrc = optionsSrc,
                     !.handed = IF optionsSrc # EmptySrc THEN @ + 1 ELSE @,
                     !.streamPending = (optionsSrc # EmptySrc),
                     !.engineReps = <<>>,
                     !.engineCurRep = NoRep]

attachSource(r, src) ==
  [r EXCEPT !.engineSrc = src, !.handed = @ + 1, !.streamPending = TRUE,
            !.engineReps = <<>>, !.engineCurRep = NoRep]

\* updateSrc without its !playerRef.current guard on initPlayer
updateSrcAlwaysInit(r, newSrc, elPresent, optionsSrc, loggedIn, qualityIndex, resetThrows) ==
  LET r1 == initPlayer(r, elPresent, optionsSrc, loggedIn, qualityIndex, resetThrows)
  IN IF r1.playerRef = NoPlayer THEN [r1 EXCEPT !.out = "onError"]
     ELSE IF newSrc = EmptySrc THEN [r1 EXCEPT !.out = "onError"]
     ELSE attachSource(revokePreviousBlobUrl(r1), newSrc)

updateSrc(r, newSrc, elPresent, optionsSrc, loggedIn, qualityIndex, resetThrows) ==
  LET r1 == IF r.playerRef = NoPlayer
            THEN initPlayer(r, elPresent, optionsSrc, loggedIn, qualityIndex, resetThrows)
            ELSE r
  IN IF r1.playerRef = NoPlayer THEN [r1 EXCEPT !.out = "onError"]
     ELSE IF newSrc = EmptySrc THEN [r1 EXCEPT !.out = "onError"]
     ELSE attachSource(revokePreviousBlobUrl(r1), newSrc)

\* reset() can throw only when there is an instance to reset
ResetOutcomes(p) == IF p # NoPlayer THEN BOOLEAN ELSE {FALSE}

----------------------------------------------------------------------------
(* Initial state: first render done, mount effects run *)

reactState == <<options, formatListTwo, formatListRef, formatListReq, availableQualities,
                currentQualityIndex, currentQuality, currentAutoQuality, isLoggedIn,
                switchMessage>>
qualityState == <<availableQualities, currentQualityIndex, currentQuality,
                  currentAutoQuality>>
manifestState == <<options, formatListTwo, formatListRef, formatListReq>>
fetchState == <<url, inflight, nextReq, completed>>
subtitleState == <<subtitles, processedSubtitles, currentTime, currentSubtitle>>
platformState == <<isFullscreen, fullscreenElement, isPiPSupported, pipElement, lastCall>>
volumeState == <<volume, isMuted, elVolume, elMuted>>
viewState == <<subtitleState, platformState, volumeState>>
refState == <<playerRef, activeEngines, nextEngine, autoSwitchVideo, engineSrc,
              streamPending, engineReps, engineCurRep, capturedIsLoggedIn,
              capturedQualityIndex, hideControlsTimer, hideTimerPending,
              previousBlobUrl, liveBlobs>>

\* the player proper, whatever the subtitles and the platform
PlayerInit ==
  /\ mounted = TRUE
  /\ url \in Urls
  /\ inflight = IF url # "" THEN {1} ELSE {}
  /\ nextReq = IF url # "" THEN 2 ELSE 1
  /\ completed = <<>>
  /\ liveBlobs = {}
  /\ options = EmptySrc
  /\ formatListTwo = <<>>
  /\ formatListRef = <<>>
  /\ formatListReq = 0
  /\ availableQualities = <<>>
  /\ currentQualityIndex = AutoIndex
  /\ currentQuality = AutoLabel
  /\ currentAutoQuality = ""
  /\ isLoggedIn = FALSE
  /\ switchMessage = NoMessage
  /\ msgTimers = 0
  /\ playerRef = NoPlayer
  /\ activeEngines = {}
  /\ nextEngine = 1
  /\ autoSwitchVideo = TRUE
  /\ engineSrc = EmptySrc
  /\ streamPending = FALSE
  /\ engineReps = <<>>
  /\ engineCurRep = NoRep
  /\ capturedIsLoggedIn = FALSE
  /\ capturedQualityIndex = AutoIndex
  /\ hideControlsTimer = FALSE
  /\ hideTimerPending = FALSE
  /\ previousBlobUrl = NoBlob
  /\ lastOp = "mount"
  /\ lastOut = "none"
  /\ lastHanded = 0

\* no subtitles given (the prop's default), nothing fullscreen or in picture
SubtitleInit ==
  /\ subtitles = <<>>
  /\ processedSubtitles = <<>>
  /\ currentTime = 0
  /\ currentSubtitle = ""

PlatformInit ==
  /\ isFullscreen = FALSE
  /\ fullscreenElement = FALSE
  /\ isPiPSupported = TRUE
  /\ pipElement = FALSE
  /\ lastCall = "none"

\* volume 0.7, not muted; the listener effect copies the volume to the element
VolumeInit ==
  /\ volume = InitialVolume
  /\ isMuted = FALSE
  /\ elVolume = InitialVolume
  /\ elMuted = FALSE

Init == PlayerInit /\ SubtitleInit /\ PlatformInit /\ VolumeInit

----------------------------------------------------------------------------
(* Manifest fetcher *)

\* refetchManifest up to the fetch call, for the url of the calling render
refetchManifest(u) ==
  IF u = ""
  THEN UNCHANGED <<inflight, nextReq>>
  ELSE /\ nextReq <= MaxFetches
       /\ inflight' = inflight \cup {nextReq}
       /\ nextReq' = nextReq + 1

\* what the .then callback of refetchManifest leaves in (options, formatListTwo)
\* for request r, with the formatListRef effect run
\* the .then callback dropping the source of a superseded request, not its list
OnManifestLatestSource(r, resp) ==
  [options |-> IF r = nextReq - 1 THEN r ELSE options,
   formatListTwo |-> resp.formatList,
   formatListRef |-> resp.formatList, formatListReq |-> r]

OnManifest(r, resp) ==
  [options |-> r, formatListTwo |-> resp.formatList,
   formatListRef |-> resp.formatList, formatListReq |-> r]

\* a manifest request completes: the promise chain of refetchManifest, then the
\* effects of the render it causes (formatListRef sync, updateSrc(options))
FetchComplete(r, resp, resetThrows) ==
  /\ r \in inflight
  /\ inflight' = inflight \ {r}
  /\ completed' = Append(completed, r)
  /\ lastOp' = FetchOp(resp.kind)
  /\ UNCHANGED viewState
  /\ UNCHANGED <<mounted, url, nextReq, qualityState, isLoggedIn,
                 switchMessage, msgTimers>>
  /\ IF resp.kind \in AppliedKinds
     THEN LET withBlob == [Refs EXCEPT !.liveBlobs = @ \cup {r}]
              m == OnManifest(r, resp)
          IN IF mounted
             THEN /\ options' = m.options
                  /\ formatListTwo' = m.formatListTwo
                  /\ formatListRef' = m.formatListRef
                  /\ formatListReq' = m.formatListReq
                  /\ SetRefs(updateSrc(withBlob, m.options, TRUE, m.options, isLoggedIn,
                                       currentQualityIndex, resetThrows))
             ELSE /\ SetRefs(withBlob)
                  /\ UNCHANGED manifestState
     ELSE /\ SetRefs([Refs EXCEPT !.out = "logged"])
          /\ UNCHANGED manifestState

\* updateSrc through the imperative handle, in the latest render's closure
HostUpdateSrc(newSrc, resetThrows) ==
  /\ SetRefs(updateSrc(Refs, newSrc, mounted, options, isLoggedIn,
                       currentQualityIndex, resetThrows))
  /\ lastOp' = IF newSrc = EmptySrc THEN "updateSrcEmpty" ELSE "updateSrc"
  /\ UNCHANGED viewState
  /\ UNCHANGED <<mounted, fetchState, reactState, msgTimers>>

----------------------------------------------------------------------------
(* Login *)

\* handleLoginSuccess that also drops the login-gated entries from the menu
handleLoginSuccessPrunesMenu ==
  /\ mounted
  /\ isLoggedIn' = TRUE
  /\ refetchManifest(url)
  /\ availableQualities' = SelectSeq(availableQualities, LAMBDA q : ~q.needLogin)
  /\ lastOp' = "handleLoginSuccess"
  /\ lastHanded' = 0
  /\ UNCHANGED viewState
  /\ lastOut' = "none"
  /\ UNCHANGED <<mounted, url, completed, manifestState, currentQualityIndex,
                 currentQuality, currentAutoQuality, switchMessage, msgTimers, refState>>

handleLoginSuccess ==
  /\ mounted
  /\ isLoggedIn' = TRUE
  /\ refetchManifest(url)
  /\ lastOp' = "handleLoginSuccess"
  /\ lastHanded' = 0
  /\ UNCHANGED viewState
  /\ lastOut' = "none"
  /\ UNCHANGED <<mounted, url, completed, manifestState, qualityState,
                 switchMessage, msgTimers, refState>>

----------------------------------------------------------------------------
(* Engine events *)

\* the engine reports STREAM_INITIALIZED for the attached source, with the
\* representations of its manifest; the handler is the one initPlayer registered
StreamInitialized(reps, cur) ==
  /\ playerRef # NoPlayer
  /\ streamPending
  /\ cur \in {NoRep} \cup (0 .. Len(reps) - 1)
  /\ streamPending' = FALSE
  /\ engineReps' = reps
  /\ engineCurRep' = cur
  /\ IF mounted
     THEN LET q == updateQualityList(capturedQualityIndex, playerRef, reps, cur,
                                     formatListRef, currentQuality, currentAutoQuality)
          IN /\ availableQualities' =
                  BuildQualities(formatListRef, reps, capturedIsLoggedIn)
             /\ currentQuality' = q.currentQuality
             /\ currentAutoQuality' = q.currentAutoQuality
     ELSE UNCHANGED <<availableQualities, currentQuality, currentAutoQuality>>
  /\ lastOp' = "StreamInitialized"
  /\ lastHanded' = 0
  /\ UNCHANGED viewState
  /\ lastOut' = "none"
  /\ UNCHANGED <<mounted, fetchState, manifestState, currentQualityIndex, isLoggedIn,
                 switchMessage, msgTimers, playerRef,
                 activeEngines, nextEngine, autoSwitchVideo, engineSrc,
                 capturedIsLoggedIn, capturedQualityIndex, hideControlsTimer,
                 hideTimerPending, previousBlobUrl, liveBlobs>>

\* the engine reports QUALITY_CHANGE_RENDERED from the current representation
\* (oldRepresentation, absent when there was none) to newIndex
QualityChangeRendered(newIndex) ==
  /\ playerRef # NoPlayer
  /\ ~streamPending
  /\ newIndex \in 0 .. Len(engineReps) - 1
  /\ LET old == engineCurRep
         q == IF capturedQualityIndex = AutoIndex
              THEN updateQualityList(capturedQualityIndex, playerRef, engineReps,
                                     newIndex, formatListRef, currentQuality,
                                     currentAutoQuality)
              ELSE [currentQuality |-> currentQuality,
                    currentAutoQuality |-> currentAutoQuality]
         m == FindFormat(formatListRef, NumberOf(engineReps[newIndex + 1]))
         shows == old # NoRep /\ newIndex # old /\ m # 0
     IN /\ shows => msgTimers < MaxTimers
        /\ msgTimers' = IF shows THEN msgTimers + 1 ELSE msgTimers
        /\ IF mounted
           THEN /\ currentQuality' = q.currentQuality
                /\ currentAutoQuality' = q.currentAutoQuality
                /\ switchMessage' =
                     IF shows THEN <<"switched", formatListRef[m].new_description>>
                     ELSE switchMessage
           ELSE UNCHANGED <<currentQuality, currentAutoQuality, switchMessage>>
  /\ engineCurRep' = newIndex
  /\ lastOp' = "QualityChangeRendered"
  /\ lastHanded' = 0
  /\ UNCHANGED viewState
  /\ lastOut' = "none"
  /\ UNCHANGED <<mounted, fetchState, manifestState, availableQualities,
                 currentQualityIndex, isLoggedIn,
                 playerRef, activeEngines, nextEngine, autoSwitchVideo, engineSrc,
                 streamPending, engineReps, capturedIsLoggedIn, capturedQualityIndex,
                 hideControlsTimer, hideTimerPending, previousBlobUrl, liveBlobs>>

\* the engine reports ERROR: the handler calls onError
EngineError ==
  /\ playerRef # NoPlayer
  /\ engineSrc # EmptySrc
  /\ lastOp' = "EngineError"
  /\ lastHanded' = 0
  /\ UNCHANGED viewState
  /\ lastOut' = "onError"
  /\ UNCHANGED <<mounted, fetchState, reactState, msgTimers, refState>>

----------------------------------------------------------------------------
(* User quality selection *)

\* changeQuality whose catch block leaves the switch message in place
changeQualityKeepsMessage(index, throws) ==
  LET same == [index |-> currentQualityIndex, quality |-> currentQuality,
               autoQuality |-> currentAutoQuality, message |-> switchMessage,
               timer |-> FALSE, autoSwitch |-> autoSwitchVideo, out |-> "none"]
      t == FindQuality(availableQualities, index)
  IN IF playerRef = NoPlayer \/ Len(availableQualities) = 0 THEN same
     ELSE IF index = AutoIndex
     THEN LET q == updateQualityList(currentQualityIndex, playerRef, engineReps,
                                     engineCurRep, formatListRef, AutoLabel,
                                     currentAutoQuality)
          IN [same EXCEPT !.autoSwitch = TRUE, !.index = AutoIndex,
                          !.quality = q.currentQuality,
                          !.autoQuality = q.currentAutoQuality]
     ELSE IF t = 0 THEN same
     ELSE IF throws
     THEN [same EXCEPT !.timer = TRUE, !.autoSwitch = TRUE, !.index = AutoIndex,
                       !.quality = AutoLabel, !.out = "logged",
                       !.message = <<"switching", availableQualities[t].label>>]
     ELSE [same EXCEPT !.timer = TRUE, !.autoSwitch = FALSE, !.index = index,
                       !.quality = availableQualities[t].label, !.autoQuality = "",
                       !.message = <<"switching", availableQualities[t].label>>]

\* changeQuality whose catch block does not turn auto switching back on
changeQualityLeavesSwitchingOff(index, throws) ==
  LET same == [index |-> currentQualityIndex, quality |-> currentQuality,
               autoQuality |-> currentAutoQuality, message |-> switchMessage,
               timer |-> FALSE, autoSwitch |-> autoSwitchVideo, out |-> "none"]
      t == FindQuality(availableQualities, index)
  IN IF playerRef = NoPlayer \/ Len(availableQualities) = 0 THEN same
     ELSE IF index = AutoIndex
     THEN LET q == updateQualityList(currentQualityIndex, playerRef, engineReps,
                                     engineCurRep, formatListRef, AutoLabel,
                                     currentAutoQuality)
          IN [same EXCEPT !.autoSwitch = TRUE, !.index = AutoIndex,
                          !.quality = q.currentQuality,
                          !.autoQuality = q.currentAutoQuality]
     ELSE IF t = 0 THEN same
     ELSE IF throws
     THEN [same EXCEPT !.timer = TRUE, !.autoSwitch = FALSE, !.index = AutoIndex,
                       !.quality = AutoLabel, !.message = NoMessage, !.out = "logged"]
     ELSE [same EXCEPT !.timer = TRUE, !.autoSwitch = FALSE, !.index = index,
                       !.quality = availableQualities[t].label, !.autoQuality = "",
                       !.message = <<"switching", availableQualities[t].label>>]

\* what changeQuality(index) leaves, the engine throwing or not inside the try
changeQualityResult(index, throws) ==
  LET same == [index |-> currentQualityIndex, quality |-> currentQuality,
               autoQuality |-> currentAutoQuality, message |-> switchMessage,
               timer |-> FALSE, autoSwitch |-> autoSwitchVideo, out |-> "none"]
      t == FindQuality(availableQualities, index)
  IN IF playerRef = NoPlayer \/ Len(availableQualities) = 0 THEN same
     ELSE IF index = AutoIndex
     THEN LET q == updateQualityList(currentQualityIndex, playerRef, engineReps,
                                     engineCurRep, formatListRef, AutoLabel,
                                     currentAutoQuality)
          IN [same EXCEPT !.autoSwitch = TRUE, !.index = AutoIndex,
                          !.quality = q.currentQuality,
                          !.autoQuality = q.currentAutoQuality]
     ELSE IF t = 0 THEN same
     ELSE IF throws
     THEN [same EXCEPT !.timer = TRUE, !.autoSwitch = TRUE, !.index = AutoIndex,
                       !.quality = AutoLabel, !.message = NoMessage, !.out = "logged"]
     ELSE [same EXCEPT !.timer = TRUE, !.autoSwitch = FALSE, !.index = index,
                       !.quality = availableQualities[t].label, !.autoQuality = "",
                       !.message = <<"switching", availableQualities[t].label>>]

\* onQualityChange from the controls (the trailing play() of a playing video
\* changes nothing here)
changeQuality(index, throws) ==
  /\ mounted
  /\ LET c == changeQualityResult(index, throws)
     IN /\ c.timer => msgTimers < MaxTimers
        /\ msgTimers' = IF c.timer THEN msgTimers + 1 ELSE msgTimers
        /\ currentQualityIndex' = c.index
        /\ currentQuality' = c.quality
        /\ currentAutoQuality' = c.autoQuality
        /\ switchMessage' = c.message
        /\ autoSwitchVideo' = c.autoSwitch
        /\ lastOut' = c.out
  /\ lastOp' = "changeQuality"
  /\ lastHanded' = 0
  /\ UNCHANGED viewState
  /\ UNCHANGED <<mounted, fetchState, manifestState, availableQualities, isLoggedIn,
                 playerRef, activeEngines, nextEngine,
                 engineSrc, streamPending, engineReps, engineCurRep,
                 capturedIsLoggedIn, capturedQualityIndex, hideControlsTimer,
                 hideTimerPending, previousBlobUrl, liveBlobs>>

\* a message timer whose callback leaves the message in place
MessageTimeoutKeepsMessage ==
  /\ msgTimers > 0
  /\ msgTimers' = msgTimers - 1
  /\ lastOp' = "MessageTimeout"
  /\ lastHanded' = 0
  /\ UNCHANGED viewState
  /\ lastOut' = "none"
  /\ UNCHANGED <<mounted, fetchState, manifestState, qualityState, isLoggedIn,
                 switchMessage, refState>>

\* a setTimeout(() => setSwitchMessage('')) fires
MessageTimeout ==
  /\ msgTimers > 0
  /\ msgTimers' = msgTimers - 1
  /\ switchMessage' = IF mounted THEN NoMessage ELSE switchMessage
  /\ lastOp' = "MessageTimeout"
  /\ lastHanded' = 0
  /\ UNCHANGED viewState
  /\ lastOut' = "none"
  /\ UNCHANGED <<mounted, fetchState, manifestState, qualityState, isLoggedIn,
                 refState>>

----------------------------------------------------------------------------
(* Controls timer and teardown *)

handleMouseMove ==
  /\ mounted
  /\ hideControlsTimer' = TRUE
  /\ hideTimerPending' = TRUE
  /\ lastOp' = "handleMouseMove"
  /\ lastHanded' = 0
  /\ UNCHANGED viewState
  /\ lastOut' = "none"
  /\ UNCHANGED <<mounted, fetchState, manifestState, qualityState, isLoggedIn,
                 switchMessage, msgTimers, playerRef, activeEngines,
                 nextEngine, autoSwitchVideo, engineSrc, streamPending, engineReps,
                 engineCurRep, capturedIsLoggedIn, capturedQualityIndex,
                 previousBlobUrl, liveBlobs>>

\* the hide-controls timeout fires, the video playing or not in its closure; the
\* ref keeps the fired timer's id
HideControlsTimeout ==
  /\ hideTimerPending
  /\ hideTimerPending' = FALSE
  /\ lastOp' = "HideControlsTimeout"
  /\ lastHanded' = 0
  /\ UNCHANGED viewState
  /\ lastOut' = "none"
  /\ UNCHANGED <<mounted, fetchState, manifestState, qualityState, isLoggedIn,
                 switchMessage, msgTimers, playerRef, activeEngines,
                 nextEngine, autoSwitchVideo, engineSrc, streamPending, engineReps,
                 engineCurRep, capturedIsLoggedIn, capturedQualityIndex,
                 hideControlsTimer, previousBlobUrl, liveBlobs>>

\* the component unmounts: the effect cleanups run (the listener effect's clears
\* the controls timer, the last effect's calls destroyPlayer)
Unmount(resetThrows) ==
  /\ mounted
  /\ mounted' = FALSE
  /\ LET r0 == IF hideControlsTimer
               THEN [Refs EXCEPT !.hideControlsTimer = FALSE, !.hideTimerPending = FALSE]
               ELSE Refs
     IN SetRefs(destroyPlayer(r0, resetThrows))
  /\ lastOp' = "destroyPlayer"
  /\ UNCHANGED viewState
  /\ UNCHANGED <<fetchState, reactState, msgTimers>>

----------------------------------------------------------------------------
(* The player's life from mount to unmount: manifest fetches, the source
   updates they cause, engine events, quality selection, login, teardown.
   The imperative handle and the controls timer are driven separately. *)

Next ==
  \/ \E r \in inflight, resp \in Responses, t \in ResetOutcomes(playerRef) :
       FetchComplete(r, resp, t)
  \/ handleLoginSuccess
  \/ \E reps \in RepLists, cur \in {NoRep, 0, 1} : StreamInitialized(reps, cur)
  \/ \E i \in {0, 1} : QualityChangeRendered(i)
  \/ EngineError
  \/ \E i \in QualityIndexInputs, t \in BOOLEAN : changeQuality(i, t)
  \/ MessageTimeout
  \/ \E t \in ResetOutcomes(playerRef) : Unmount(t)

Spec == Init /\ [][Next]_vars

\* the same life with the host calling updateSrc through the imperative handle
\* (also through a handle kept past unmount) and the controls timer running
NextWithHandle ==
  \/ Next
  \/ \E s \in {EmptySrc, ExternalSrc}, t \in ResetOutcomes(playerRef) : HostUpdateSrc(s, t)
  \/ handleMouseMove
  \/ HideControlsTimeout

SpecWithHandle == Init /\ [][NextWithHandle]_vars

\* the steps that set, clear or outlive a switch message, for one manifest
MessageNext ==
  \/ \E r \in inflight, resp \in Responses, t \in ResetOutcomes(playerRef) :
       FetchComplete(r, resp, t)
  \/ \E reps \in RepLists, cur \in {NoRep, 0, 1} : StreamInitialized(reps, cur)
  \/ \E i \in {0, 1} : QualityChangeRendered(i)
  \/ \E i \in QualityIndexInputs, t \in BOOLEAN : changeQuality(i, t)
  \/ MessageTimeout
  \/ \E t \in ResetOutcomes(playerRef) : Unmount(t)

\* with the timers running: a pending setTimeout callback is run by the event
\* loop once its delay has passed
MessageSpec == Init /\ [][MessageNext]_vars /\ WF_vars(MessageTimeout)

----------------------------------------------------------------------------
(* Time codec.  A string is the sequence of its characters; a time is a whole
   number of milliseconds, or NaN. *)

DigitChars == <<"0", "1", "2", "3", "4", "5", "6", "7", "8", "9">>

IsDigit(c) == \E d \in 1..Len(DigitChars) : DigitChars[d] = c

DigitValue(c) == (CHOOSE d \in 1..Len(DigitChars) : DigitChars[d] = c) - 1

\* str.split(sep): the pieces between the separators, at least one piece
RECURSIVE Split(_, _, _)
Split(str, sep, piece) ==
  IF str = <<>> THEN <<piece>>
  ELSE IF Head(str) = sep THEN <<piece>> \o Split(Tail(str), sep, <<>>)
  ELSE Split(Tail(str), sep, Append(piece, Head(str)))

RECURSIVE DecimalValue(_, _)
DecimalValue(str, acc) ==
  IF str = <<>> THEN acc ELSE DecimalValue(Tail(str), acc * 10 + DigitValue(Head(str)))

\* Number(str) for a string of digits and other characters: '' is 0
Number(str) ==
  IF \A i \in 1..Len(str) : IsDigit(str[i]) THEN DecimalValue(str, 0) ELSE NaN

\* the element a destructuring takes at position i: undefined when there is none
Undefined == <<"undefined">>
At(parts, i) == IF i <= Len(parts) THEN parts[i] ELSE Undefined

\* Number applied by map, or to a destructured undefined
NumberOrNaN(x) == IF x = Undefined THEN NaN ELSE Number(x)

\* arithmetic of doubles on the values met here: NaN is contagious
Plus(a, b) == IF a = NaN \/ b = NaN THEN NaN ELSE a + b
Mult(a, b) == IF a = NaN \/ b = NaN THEN NaN ELSE a * b
LessEq(a, b) == a # NaN /\ b # NaN /\ a <= b

\* parseTimeToSeconds, in milliseconds: Number(milliseconds || 0) is 0 for a
\* missing or empty segment and Number of the segment otherwise
parseTimeToSeconds(timeString) ==
  LET parts == Split(timeString, ",", <<>>)
      hms == Split(At(parts, 1), ":", <<>>)
      milliseconds == At(parts, 2)
      ms == IF milliseconds = Undefined \/ milliseconds = <<>>
            THEN 0 ELSE Number(milliseconds)
  IN Plus(Plus(Plus(Mult(NumberOrNaN(At(hms, 1)), 3600000),
                    Mult(NumberOrNaN(At(hms, 2)), 60000)),
               Mult(NumberOrNaN(At(hms, 3)), 1000)), ms)

----------------------------------------------------------------------------
(* Subtitle synchronizer *)

MaxTick == 12

\* the playback times a timeupdate reports: every half second up to MaxTick
PlaybackTimes == {500 * k : k \in 0..MaxTick}

Two(n) == <<DigitChars[(n \div 10) + 1], DigitChars[(n % 10) + 1]>>

\* the timestamp HH:MM:SS followed by tail
Stamp(h, m, sec, tail) == Two(h) \o <<":">> \o Two(m) \o <<":">> \o Two(sec) \o tail

Ms000 == <<",", "0", "0", "0">>
Ms500 == <<",", "5", "0", "0">>
MsNone == <<>>
MsEmpty == <<",">>
MsLetters == <<",", "x", "x">>

Sub(start, end, text) == [start |-> start, end |-> end, text |-> text]

\* subtitle props: none; two lines with a gap; unsorted; overlapping, in both
\* orders; millisecond segments missing or empty; a segment that is no number;
\* a first line with empty text; a line past the first minute
SubtitleLists ==
  { <<>>,
    << Sub(Stamp(0, 0, 1, Ms000), Stamp(0, 0, 2, Ms000), "a"),
       Sub(Stamp(0, 0, 3, Ms000), Stamp(0, 0, 4, Ms500), "b") >>,
    << Sub(Stamp(0, 0, 3, Ms500), Stamp(0, 0, 4, Ms000), "b"),
       Sub(Stamp(0, 0, 1, Ms000), Stamp(0, 0, 2, Ms500), "a") >>,
    << Sub(Stamp(0, 0, 1, Ms000), Stamp(0, 0, 3, Ms000), "a"),
       Sub(Stamp(0, 0, 2, Ms000), Stamp(0, 0, 4, Ms000), "b") >>,
    << Sub(Stamp(0, 0, 2, Ms000), Stamp(0, 0, 4, Ms000), "b"),
       Sub(Stamp(0, 0, 1, Ms000), Stamp(0, 0, 3, Ms000), "a") >>,
    << Sub(Stamp(0, 0, 1, MsNone), Stamp(0, 0, 2, MsEmpty), "a") >>,
    << Sub(Stamp(0, 0, 1, MsLetters), Stamp(0, 0, 3, Ms000), "a"),
       Sub(Stamp(0, 0, 2, Ms000), Stamp(0, 0, 5, MsLetters), "b"),
       Sub(Stamp(0, 0, 4, Ms000), Stamp(0, 0, 5, Ms500), "c") >>,
    << Sub(Stamp(0, 0, 1, Ms000), Stamp(0, 0, 3, Ms000), ""),
       Sub(Stamp(0, 0, 2, Ms000), Stamp(0, 0, 4, Ms000), "b") >>,
    << Sub(Stamp(0, 0, 0, Ms000), Stamp(0, 0, 0, Ms500), "a"),
       Sub(Stamp(0, 1, 5, Ms500), Stamp(1, 0, 0, Ms000), "c") >> }

\* the memo processedSubtitles
processSubtitles(subs) ==
  [i \in 1..Len(subs) |->
     [startTime |-> parseTimeToSeconds(subs[i].start),
      endTime |-> parseTimeToSeconds(subs[i].end),
      text |-> subs[i].text]]

\* processedSubtitles.find(...) with the interval open at its end
RECURSIVE findSubtitleExclusiveEnd(_, _)
findSubtitleExclusiveEnd(lines, t) ==
  IF lines = <<>> THEN <<>>
  ELSE IF LessEq(Head(lines).startTime, t) /\ LessEq(t, Head(lines).endTime)
          /\ t # Head(lines).endTime
       THEN <<Head(lines)>>
       ELSE findSubtitleExclusiveEnd(Tail(lines), t)

\* processedSubtitles.find(sub => t >= sub.startTime && t <= sub.endTime): the
\* line found, or nothing
RECURSIVE findSubtitle(_, _)
findSubtitle(lines, t) ==
  IF lines = <<>> THEN <<>>
  ELSE IF LessEq(Head(lines).startTime, t) /\ LessEq(t, Head(lines).endTime)
       THEN <<Head(lines)>>
       ELSE findSubtitle(Tail(lines), t)

\* what the subtitle effect sets currentSubtitle to
subtitleEffect(lines, t) ==
  IF Len(lines) = 0 THEN ""
  ELSE LET currentSub == findSubtitle(lines, t)
       IN IF currentSub = <<>> THEN "" ELSE currentSub[1].text

playerState == <<mounted, fetchState, reactState, msgTimers, refState>>

\* the first render with the subtitles given: the memo, then the effect
SubtitleMount ==
  /\ subtitles \in SubtitleLists
  /\ processedSubtitles = processSubtitles(subtitles)
  /\ currentTime = 0
  /\ currentSubtitle = subtitleEffect(processedSubtitles, 0)

\* a timeupdate of the video: updateProgress sets currentTime, and the subtitle
\* effect runs in the render that follows
updateProgress(t) ==
  /\ mounted
  /\ currentTime' = t
  /\ currentSubtitle' = subtitleEffect(processedSubtitles, t)
  /\ lastOp' = "updateProgress"
  /\ lastOut' = "none"
  /\ lastHanded' = 0
  /\ UNCHANGED <<playerState, subtitles, processedSubtitles, platformState,
                 volumeState>>

\* the host renders the player with another subtitles prop: the memo is
\* recomputed and the subtitle effect runs again
SubtitlesChange(subs) ==
  /\ mounted
  /\ subs # subtitles
  /\ subtitles' = subs
  /\ processedSubtitles' = processSubtitles(subs)
  /\ currentSubtitle' = subtitleEffect(processedSubtitles', currentTime)
  /\ lastOp' = "SubtitlesChange"
  /\ lastOut' = "none"
  /\ lastHanded' = 0
  /\ UNCHANGED <<playerState, currentTime, platformState, volumeState>>

SubtitleNext ==
  \/ \E t \in PlaybackTimes : updateProgress(t)
  \/ \E subs \in SubtitleLists : SubtitlesChange(subs)

InitSubtitles == PlayerInit /\ SubtitleMount /\ PlatformInit /\ VolumeInit

SubtitleSpec == InitSubtitles /\ [][SubtitleNext]_vars

----------------------------------------------------------------------------
(* Fullscreen and picture-in-picture *)

\* toggleFullscreen: the platform call returns a promise the handler neither
\* awaits nor catches; exitFullscreen rejects when nothing is fullscreen
toggleFullscreen(rejects) ==
  /\ IF ~mounted
     THEN /\ lastCall' = "none"
          /\ lastOut' = "none"
          /\ UNCHANGED fullscreenElement
     ELSE IF ~isFullscreen
     THEN /\ lastCall' = "requestFullscreen"
          /\ lastOut' = IF rejects THEN "uncaught" ELSE "none"
          /\ fullscreenElement' = IF rejects THEN fullscreenElement ELSE TRUE
     ELSE /\ lastCall' = "exitFullscreen"
          /\ lastOut' = IF rejects \/ ~fullscreenElement THEN "uncaught" ELSE "none"
          /\ fullscreenElement' =
               IF rejects \/ ~fullscreenElement THEN fullscreenElement ELSE FALSE
  /\ lastOp' = "toggleFullscreen"
  /\ lastHanded' = 0
  /\ UNCHANGED <<playerState, subtitleState, volumeState, isFullscreen, isPiPSupported, pipElement>>

\* the document's fullscreenchange event reaches handleFullscreenChange
handleFullscreenChange ==
  /\ mounted
  /\ isFullscreen # fullscreenElement
  /\ isFullscreen' = fullscreenElement
  /\ lastOp' = "handleFullscreenChange"
  /\ lastOut' = "none"
  /\ lastCall' = "none"
  /\ lastHanded' = 0
  /\ UNCHANGED <<playerState, subtitleState, volumeState, fullscreenElement, isPiPSupported, pipElement>>

\* the viewer leaves fullscreen with the browser's own control (Escape): the
\* document changes, handleFullscreenChange is told later
LeaveFullscreen ==
  /\ fullscreenElement
  /\ fullscreenElement' = FALSE
  /\ lastOp' = "LeaveFullscreen"
  /\ lastOut' = "none"
  /\ lastCall' = "none"
  /\ lastHanded' = 0
  /\ UNCHANGED <<playerState, subtitleState, volumeState, isFullscreen, isPiPSupported, pipElement>>

\* the viewer closes the picture-in-picture window: document.pictureInPictureElement
\* is null when togglePiP reads it next
LeavePictureInPicture ==
  /\ pipElement
  /\ pipElement' = FALSE
  /\ lastOp' = "LeavePictureInPicture"
  /\ lastOut' = "none"
  /\ lastCall' = "none"
  /\ lastHanded' = 0
  /\ UNCHANGED <<playerState, subtitleState, volumeState, isFullscreen, fullscreenElement,
                 isPiPSupported>>

\* togglePiP: the platform call is awaited inside try / catch
togglePiP(rejects) ==
  /\ IF ~mounted \/ ~isPiPSupported
     THEN /\ lastCall' = "none"
          /\ lastOut' = "none"
          /\ UNCHANGED pipElement
     ELSE /\ lastCall' = IF pipElement THEN "exitPictureInPicture"
                         ELSE "requestPictureInPicture"
          /\ lastOut' = IF rejects THEN "logged" ELSE "none"
          /\ pipElement' = IF rejects THEN pipElement ELSE ~pipElement
  /\ lastOp' = "togglePiP"
  /\ lastHanded' = 0
  /\ UNCHANGED <<playerState, subtitleState, volumeState, isFullscreen, fullscreenElement,
                 isPiPSupported>>

----------------------------------------------------------------------------
(* Volume and mute *)

\* the positions of the volume slider tried: 0, 0.3, 0.5
VolumeInputs == {0, 3, 5}

handleVolumeChange(newVolume) ==
  /\ volume' = newVolume
  /\ IF mounted
     THEN /\ elVolume' = newVolume
          /\ isMuted' = (newVolume = 0)
          /\ UNCHANGED elMuted
     ELSE UNCHANGED <<elVolume, isMuted, elMuted>>
  /\ lastOp' = "handleVolumeChange"
  /\ lastOut' = "none"
  /\ lastCall' = "none"
  /\ lastHanded' = 0
  /\ UNCHANGED <<playerState, subtitleState, isFullscreen, fullscreenElement,
                 isPiPSupported, pipElement>>

toggleMute ==
  /\ IF ~mounted THEN UNCHANGED volumeState
     ELSE IF isMuted
     THEN /\ elMuted' = FALSE
          /\ isMuted' = FALSE
          /\ IF volume = 0
             THEN volume' = RestoredVolume /\ elVolume' = RestoredVolume
             ELSE UNCHANGED <<volume, elVolume>>
     ELSE /\ elMuted' = TRUE
          /\ isMuted' = TRUE
          /\ UNCHANGED <<volume, elVolume>>
  /\ lastOp' = "toggleMute"
  /\ lastOut' = "none"
  /\ lastCall' = "none"
  /\ lastHanded' = 0
  /\ UNCHANGED <<playerState, subtitleState, isFullscreen, fullscreenElement,
                 isPiPSupported, pipElement>>

----------------------------------------------------------------------------
(* The controls of the mounted player *)

\* a browser with or without picture-in-picture
InitControls ==
  /\ PlayerInit
  /\ SubtitleInit
  /\ VolumeInit
  /\ isFullscreen = FALSE
  /\ fullscreenElement = FALSE
  /\ isPiPSupported \in BOOLEAN
  /\ pipElement = FALSE
  /\ lastCall = "none"

ControlsNext ==
  \/ \E rejects \in BOOLEAN : toggleFullscreen(rejects)
  \/ handleFullscreenChange
  \/ \E rejects \in BOOLEAN : togglePiP(rejects)
  \/ LeaveFullscreen
  \/ LeavePictureInPicture
  \/ \E v \in VolumeInputs : handleVolumeChange(v)
  \/ toggleMute

ControlsSpec == InitControls /\ [][ControlsNext]_vars

----------------------------------------------------------------------------
(* Properties *)

QualityOps == {"StreamInitialized", "QualityChangeRendered", "changeQuality"}
AppliedOps == {"fetch_ok", "fetch_nompd"}
FailedOps == {"fetch_failed", "fetch_nompd"}

\* C1: at most one blob created by the manifest fetcher is live at any time
\* (the blob of a fetch is released no later than the next one is attached).
C1_AtMostOneLiveBlob == Cardinality(liveBlobs) <= 1

\* C2: in every reachable state at most one engine instance is created and not
\* reset, and it is the one playerRef holds.
C2_SingleEngine ==
  /\ Cardinality(activeEngines) <= 1
  /\ activeEngines = IF playerRef = NoPlayer THEN {} ELSE {playerRef}

\* C2 witness: a second source update reached the engine the first one created.
C2_SecondUpdateSameEngine ==
  /\ mounted
  /\ Len(completed) = 2
  /\ liveBlobs = {1, 2}
  /\ playerRef = 1
  /\ engineSrc = completed[2]

\* C3: after a changeQuality whose engine call threw, the selection is automatic,
\* the label is the automatic label, video auto switching is on and the switch
\* message is empty; the message is empty after a message timeout fired.
C3_SwitchFailureRevertsToAuto ==
  /\ (lastOp = "changeQuality" /\ lastOut = "logged") =>
       /\ currentQualityIndex = AutoIndex
       /\ currentQuality = AutoLabel
       /\ autoSwitchVideo
       /\ switchMessage = NoMessage
  /\ (lastOp = "MessageTimeout" /\ mounted) => switchMessage = NoMessage

\* C3 witness: an explicit switch just failed in the engine, with the timer of its
\* message still pending.
C3_SwitchJustFailed ==
  /\ lastOp = "changeQuality"
  /\ lastOut = "logged"
  /\ msgTimers > 0
  /\ Len(availableQualities) > 0

\* the menu entry the claim gives for one format item, for a viewer logged in or not
ClaimedEntry(item, reps, loggedIn) ==
  IF item.id # 0 /\ item.codecs # "" /\ \E i \in 1..Len(reps) : NumberOf(reps[i]) = item.id
  THEN << [index |-> FindRepIndex(reps, item.id), label |-> item.new_description,
           needLogin |-> FALSE] >>
  ELSE IF item.codecs = "" /\ ~loggedIn /\ item.id < LoginThreshold
  THEN << [index |-> item.id, label |-> item.new_description, needLogin |-> TRUE] >>
  ELSE <<>>

RECURSIVE ClaimedMenu(_, _, _)
ClaimedMenu(fl, reps, loggedIn) ==
  IF fl = <<>> THEN <<>>
  ELSE ClaimedEntry(Head(fl), reps, loggedIn) \o ClaimedMenu(Tail(fl), reps, loggedIn)

MenuOf(qs) ==
  [i \in 1..Len(qs) |->
     [index |-> qs[i].index, label |-> qs[i].label, needLogin |-> qs[i].needLogin]]

\* C4: on every stream-initialized event the quality list is rebuilt, in
\* format-list order, to one resolved entry per item with a codec and a matching
\* representation and one login-gated entry per codec-less item with id < 112
\* when the viewer is unauthenticated, and nothing else.
C4_RebuildMatchesViewer ==
  (lastOp = "StreamInitialized" /\ mounted) =>
    MenuOf(availableQualities) = ClaimedMenu(formatListRef, engineReps, isLoggedIn)

\* C5: once handleLoginSuccess has run, no rebuild of the quality list emits an
\* entry flagged needLogin.
C5_NoLoginEntriesAfterLogin ==
  (lastOp = "StreamInitialized" /\ mounted /\ isLoggedIn) =>
    \A i \in 1..Len(availableQualities) : ~availableQualities[i].needLogin

\* C6: a manifest fetch that fails (the request rejects, the body is not JSON or
\* the expected fields are missing) changes neither the source descriptor, the
\* format list, the quality list, the quality selection nor the engine, and
\* calls no error callback.
C6_FetchFailureChangesNothing ==
  [][(lastOp' \in FailedOps /\ inflight' # inflight) =>
       /\ UNCHANGED <<options, formatListTwo, formatListRef, availableQualities,
                      currentQualityIndex, currentQuality, playerRef, activeEngines,
                      engineSrc>>
       /\ lastOut' # "onError"]_vars

\* C7: manifest responses may complete in any order; each completion is applied
\* without an error being thrown or reported, so the source descriptor and the
\* format list are those of the response that completed last, and both always
\* come from the same response.
C7_LastCompletionWins ==
  /\ formatListReq = options
  /\ (mounted /\ lastOp \in AppliedOps) =>
       /\ options = completed[Len(completed)]
       /\ formatListTwo = formatListRef
       /\ lastOut = "none"

\* C7 witness: the response to the first request completed after the response to
\* the request issued after it, and both were applied.
C7_StaleResponseAppliedLast ==
  /\ mounted
  /\ lastOp = "fetch_ok"
  /\ completed = <<2, 1>>
  /\ liveBlobs = {1, 2}
  /\ options = 1

\* C8: the quality list and the current quality index change only in a step of
\* an engine event handler or of changeQuality.
C8_QualityFrame ==
  [][(availableQualities' # availableQualities
       \/ currentQualityIndex' # currentQualityIndex) => lastOp' \in QualityOps]_vars

\* C8 witness: a step that is neither (a manifest completion, a failure, login
\* success, teardown, a message timeout) was taken with a menu built and an
\* explicit quality selected.
C8_OtherStepWithSelection ==
  /\ lastOp \in {"fetch_ok", "fetch_failed", "handleLoginSuccess", "destroyPlayer",
                 "MessageTimeout"}
  /\ Len(availableQualities) > 0
  /\ currentQualityIndex # AutoIndex

SameRefs(a, b) == [a EXCEPT !.out = "none"] = [b EXCEPT !.out = "none"]

NothingHeld(r) ==
  r.playerRef = NoPlayer /\ ~r.hideControlsTimer /\ r.previousBlobUrl = NoBlob

\* C9: destroyPlayer never throws, changes nothing when no engine, timer or blob
\* is held, and a second call right after a first leaves what the first left.
C9_DestroyIdempotent ==
  \A t1 \in ResetOutcomes(playerRef) :
    LET once == destroyPlayer(Refs, t1)
    IN /\ once.out # "uncaught"
       /\ NothingHeld(Refs) => SameRefs(once, Refs)
       /\ \A t2 \in ResetOutcomes(once.playerRef) :
            SameRefs(destroyPlayer([once EXCEPT !.out = "none"], t2), once)

\* C10: after teardown the engine instance is no longer held and no blob the
\* manifest fetcher created is live.
C10_TeardownReleasesAll ==
  lastOp = "destroyPlayer" => (playerRef = NoPlayer /\ liveBlobs = {})

\* C11: after destroyPlayer no timer the player started is still pending, neither
\* the controls-hide timer nor a timer that clears the switch message.
C11_NoTimerAfterTeardown ==
  lastOp = "destroyPlayer" => (msgTimers = 0 /\ ~hideTimerPending)

\* C13: a change of the source descriptor hands its URI to the engine exactly
\* once, the first change (which creates the engine) included.
C13_SourceHandedOnce ==
  (lastOp \in AppliedOps /\ mounted) => lastHanded = 1

\* C12: updateSrc called with the video element missing, or with an empty source
\* URI, reports through the error callback, hands nothing to the engine and
\* leaves the engine instance (held or not) and its attached source as they were.
C12_RejectedUpdateLeavesPlayer ==
  [][((lastOp' = "updateSrc" /\ ~mounted) \/ lastOp' = "updateSrcEmpty") =>
       /\ lastOut' = "onError"
       /\ lastHanded' = 0
       /\ UNCHANGED <<playerRef, activeEngines, engineSrc>>]_vars

\* the lines of the list whose interval, both ends included, holds time t
LinesAt(lines, t) ==
  {i \in 1..Len(lines) : LessEq(lines[i].startTime, t) /\ LessEq(t, lines[i].endTime)}

Overlapping(lines) ==
  \E i, j \in 1..Len(lines) :
    /\ i # j
    /\ LessEq(lines[i].startTime, lines[j].endTime)
    /\ LessEq(lines[j].startTime, lines[i].endTime)

\* t lies after the end of one line and before the start of another, in no line
StrictlyBetween(lines, t) ==
  /\ \E i, j \in 1..Len(lines) :
       /\ LessEq(lines[i].endTime, t) /\ lines[i].endTime # t
       /\ LessEq(t, lines[j].startTime) /\ lines[j].startTime # t
  /\ \A k \in 1..Len(lines) : lines[k].startTime # NaN /\ lines[k].endTime # NaN

\* C14: for every playback time and every subtitle list, in any order, the
\* current subtitle is the text of the first line in list order whose interval
\* [startTime, endTime], both ends included, holds the time, and the empty string
\* when no line does or the list is empty; for intervals that do not overlap, a
\* time strictly between two of them gives the empty string.
C14_FirstLineAtTime ==
  LET hits == LinesAt(processedSubtitles, currentTime)
  IN /\ hits = {} => currentSubtitle = ""
     /\ hits # {} =>
          currentSubtitle =
            processedSubtitles[CHOOSE i \in hits : \A j \in hits : i <= j].text
     /\ (~Overlapping(processedSubtitles)
          /\ StrictlyBetween(processedSubtitles, currentTime)) => currentSubtitle = ""

\* C14 witness: a timeupdate at the very end of the first of two overlapping
\* lines, which is shown although a later line holds the time too.
C14_BoundaryOfOverlap ==
  /\ lastOp = "updateProgress"
  /\ Cardinality(LinesAt(processedSubtitles, currentTime)) = 2
  /\ processedSubtitles[1].endTime = currentTime
  /\ currentSubtitle = processedSubtitles[1].text
  /\ currentSubtitle # ""

\* a timestamp HH:MM:SS with or without a millisecond segment
WellFormedTime(timeString) ==
  LET hms == Split(At(Split(timeString, ",", <<>>), 1), ":", <<>>)
  IN Len(hms) = 3 /\ \A i \in 1..3 : hms[i] # <<>> /\ Number(hms[i]) # NaN

\* the value the claim gives a timestamp: HH*3600 + MM*60 + SS seconds and the
\* milliseconds, taken as 0 when the segment is missing or is no number
ClaimedMilliseconds(timeString) ==
  LET parts == Split(timeString, ",", <<>>)
      hms == Split(parts[1], ":", <<>>)
      ms == IF Len(parts) < 2 THEN 0
            ELSE IF Number(parts[2]) = NaN THEN 0 ELSE Number(parts[2])
  IN Number(hms[1]) * 3600000 + Number(hms[2]) * 60000 + Number(hms[3]) * 1000 + ms

\* C15: parseTimeToSeconds of HH:MM:SS,mmm is HH*3600 + MM*60 + SS + mmm/1000,
\* and with the millisecond segment missing or not numeric it is the value with
\* the milliseconds taken as 0.
C15_ParseDefaultsMilliseconds ==
  lastOp = "SubtitlesChange" =>
    \A i \in 1..Len(subtitles) :
      /\ WellFormedTime(subtitles[i].start) =>
           processedSubtitles[i].startTime = ClaimedMilliseconds(subtitles[i].start)
      /\ WellFormedTime(subtitles[i].end) =>
           processedSubtitles[i].endTime = ClaimedMilliseconds(subtitles[i].end)

\* the format item matching the engine's current representation, 0 when the
\* engine reports none or no item has its id
CurrentFormat(fl, reps, cur) ==
  IF cur = NoRep \/ cur >= Len(reps) THEN 0 ELSE FindFormat(fl, NumberOf(reps[cur + 1]))

\* the sub-label the spec gives the automatic label
ClaimedSubLabel(fl, reps, cur) ==
  IF CurrentFormat(fl, reps, cur) = 0 THEN ""
  ELSE fl[CurrentFormat(fl, reps, cur)].display_desc

\* C16: changeQuality(-1) from an explicit selection turns video auto switching
\* on and recomputes the automatic label in the same operation: with the engine
\* on a representation whose format item has a display label, the sub-label is
\* that label right after the call.
C16_AutoReentryRecomputes ==
  [][(/\ lastOp' = "changeQuality"
      /\ lastOut' = "none"
      /\ currentQualityIndex # AutoIndex
      /\ currentQualityIndex' = AutoIndex
      /\ ClaimedSubLabel(formatListRef, engineReps, engineCurRep) # "") =>
       /\ autoSwitchVideo'
       /\ currentQuality' = AutoLabel
       /\ currentAutoQuality' = ClaimedSubLabel(formatListRef, engineReps, engineCurRep)]_vars

\* C17: while an explicit quality is selected, a quality-change-rendered event
\* leaves the current quality label and the auto sub-label as they were.
C17_RenderedEventKeepsExplicitLabel ==
  [][(lastOp' = "QualityChangeRendered" /\ mounted /\ currentQualityIndex # AutoIndex) =>
       UNCHANGED <<currentQuality, currentAutoQuality>>]_vars

\* C18: after an automatic-label recompute in automatic mode, with the engine
\* reporting representations, the label is the automatic label and the sub-label
\* is empty when the engine has no current representation or no format item
\* matches it, and the matching item's display label otherwise.
C18_SubLabelOfCurrentRepresentation ==
  (/\ lastOp \in {"StreamInitialized", "QualityChangeRendered"}
   /\ mounted
   /\ currentQualityIndex = AutoIndex
   /\ Len(engineReps) > 0) =>
    /\ currentQuality = AutoLabel
    /\ currentAutoQuality = ClaimedSubLabel(formatListRef, engineReps, engineCurRep)

\* C19: every transient status message is eventually cleared: once the switch
\* message of a mounted player is non-empty, with pending timers firing, it
\* becomes empty, and from empty it turns non-empty only by a further explicit
\* quality selection or engine-rendered quality change.
C19_MessageEventuallyCleared ==
  /\ (mounted /\ switchMessage # NoMessage) ~> (~mounted \/ switchMessage = NoMessage)
  /\ [][(switchMessage = NoMessage /\ switchMessage' # NoMessage) =>
          lastOp' \in {"changeQuality", "QualityChangeRendered"}]_vars

\* C19 witness: the timer of a successful explicit selection fired on the mounted
\* player, and the message it had set is gone.
C19_TimerClearedMessage ==
  /\ lastOp = "MessageTimeout"
  /\ mounted
  /\ currentQualityIndex # AutoIndex
  /\ switchMessage = NoMessage
  /\ msgTimers = 0

\* C20: a rejection of the platform call made by toggleFullscreen or togglePiP
\* is caught in the handler, which leaves the player as it was, and togglePiP
\* makes no platform call when picture-in-picture is not supported.
C20_PlatformFailuresCaught ==
  [][lastOp' \in {"toggleFullscreen", "togglePiP"} =>
       /\ lastOut' # "uncaught"
       /\ lastOut' = "logged" =>
            UNCHANGED <<playerState, isFullscreen, fullscreenElement, pipElement>>
       /\ (lastOp' = "togglePiP" /\ ~isPiPSupported) => lastCall' = "none"]_vars

\* C21: whenever an engine instance is held, its video auto bitrate switching is
\* on exactly when the current quality index is -1, whatever changeQuality calls
\* (succeeding, failing, back to automatic) and source updates came before.
C21_AutoSwitchIffAutomatic ==
  playerRef # NoPlayer => (autoSwitchVideo <=> currentQualityIndex = AutoIndex)

\* C21 witness: an explicit quality is selected, auto switching is off, and a
\* second manifest has since been attached to the same engine.
C21_ExplicitAcrossSourceUpdate ==
  /\ lastOp \in AppliedOps
  /\ Len(completed) = 2
  /\ playerRef # NoPlayer
  /\ currentQualityIndex # AutoIndex
  /\ ~autoSwitchVideo

\* C22: a current quality index other than -1 is the index of an entry of the
\* current quality list, also after a stream-initialized event rebuilt the list
\* for a new source or a refetched manifest.
C22_SelectionInMenu ==
  currentQualityIndex # AutoIndex =>
    FindQuality(availableQualities, currentQualityIndex) # 0

\* C23: the entries of the quality list have pairwise distinct index values, so
\* that changeQuality(index) names exactly one entry.
C23_DistinctIndexes ==
  \A i, j \in 1..Len(availableQualities) :
    availableQualities[i].index = availableQualities[j].index => i = j

\* C24: after any toggleMute and handleVolumeChange calls on the mounted player,
\* whenever isMuted is false the element is not muted and its volume is above 0.
C24_UnmutedMeansAudible ==
  (mounted /\ ~isMuted) => (~elMuted /\ elVolume > 0)

====
